---- MODULE Spec2Model ----
(***************************************************************************)
(* Model of klippy/extras/display/st7796s.py: the incremental display      *)
(* update encoder of the ST7796S driver.                                   *)
(*                                                                         *)
(*   PixelRunIterator    packed bits -> (value, runlength) pairs           *)
(*   PackBitsStream      units (command / literal / repeat) -> requests    *)
(*   BitmapWriterHelper  (row, data, begin, end) -> CASET/RASET/RAMWR+runs *)
(*   Framebuffer         current / previous rows, diff and flush           *)
(*                                                                         *)
(* Bytes are naturals 0..255; Python's 0-based index i is i + 1 here.      *)
(***************************************************************************)
EXTENDS Integers, Sequences, FiniteSets, TLC

VARIABLES
    iter,        \* SpecIter: the PixelRunIterator object
    iter_args,   \* SpecIter: the constructor's arguments (pixeldata, begin, end)
    runs,        \* SpecIter: the pairs __next__ has returned so far
    iter_done,   \* SpecIter: StopIteration has been raised
    stream,      \* SpecStream: the PackBitsStream object, its transmit sink and units
    calls,       \* SpecStream: number of calls made on the stream
    last_call,   \* SpecStream: the last call, its arguments and the stream before it
    diff_args,   \* SpecDiff: the arguments of get_pixel_changes
    diff_result, \* SpecDiff: the list get_pixel_changes returned
    diff_done,   \* SpecDiff: get_pixel_changes has returned
    writer,      \* SpecWriter: the BitmapWriterHelper object
    writes,      \* SpecWriter: number of write calls made on the writer
    last_write,  \* SpecWriter: the last call, its arguments and the writer before it
    menu_framebuffer, \* Spec: the Framebuffer object: heap, framebuffer, old_framebuffer
    last_op,     \* Spec: the last operation on the grid
    prev_op,     \* Spec: the operation before it
    op_raised,   \* Spec: the last operation raised IndexError
    last_flush,  \* Spec: the last flush: its write calls, its requests, the panel after it
    ops          \* Spec: number of operations made on the grid

iterVars == <<iter, iter_args, runs, iter_done>>

streamVars == <<stream, calls, last_call>>

diffVars == <<diff_args, diff_result, diff_done>>

writerVars == <<writer, writes, last_write>>

fbVars == <<menu_framebuffer, last_op, prev_op, op_raised, last_flush, ops>>

vars == <<iter, iter_args, runs, iter_done, stream, calls, last_call,
          diff_args, diff_result, diff_done, writer, writes, last_write,
          menu_framebuffer, last_op, prev_op, op_raised, last_flush, ops>>

(***************************************************************************)
(* Helpers: integer and sequence arithmetic of the Python built-ins used.  *)
(***************************************************************************)
Min(a, b) == IF a <= b THEN a ELSE b

Max(a, b) == IF a >= b THEN a ELSE b

\* Python's `None`; `not x` is true of None and of 0 ("if not end").
None == -1

\* byte & mask != 0, for a one-bit mask
BitSet(byte, mask) == (byte \div mask) % 2 = 1

\* 0x80 >> n
BitOfColumn(n) == 2 ^ (7 - n)

\* bit i (0-based, most significant bit of byte 0 first) of packed data
BitAt(data, i) == BitSet(data[(i \div 8) + 1], BitOfColumn(i % 8))

\* data[:n] for n >= 0
Take(data, n) == SubSeq(data, 1, Min(n, Len(data)))

\* data[n:] for n >= 0
Drop(data, n) == SubSeq(data, Min(n, Len(data)) + 1, Len(data))

RECURSIVE SumSeq(_)
SumSeq(s) == IF s = <<>> THEN 0 ELSE Head(s) + SumSeq(Tail(s))

RECURSIVE Concat(_)
Concat(ss) == IF ss = <<>> THEN <<>> ELSE Head(ss) \o Concat(Tail(ss))

\* all sequences over S of length 0..n
SeqsUpTo(S, n) == UNION {[1..k -> S] : k \in 0..n}

(***************************************************************************)
(* PixelRunIterator                                                        *)
(***************************************************************************)

\* __init__(pixeldata, begin, end): end None or 0 means "to the end of data"
PixelRunIterator(pixeldata, begin, end) ==
    LET end1 == IF end = None \/ end = 0
                THEN 8 * Len(pixeldata)
                ELSE Min(8 * Len(pixeldata), end)
        next_index == begin \div 8
        current_bit == BitOfColumn(begin % 8)
    IN  IF next_index < Len(pixeldata) /\ begin < end1
        THEN [data |-> pixeldata, next_index |-> next_index + 1,
              current_bit |-> current_bit,
              current_byte |-> pixeldata[next_index + 1],
              remaining |-> end1 - begin]
        ELSE [data |-> pixeldata, next_index |-> next_index + 1,
              current_bit |-> current_bit,
              current_byte |-> 0,
              remaining |-> 0]

\* The inner `while True` of __next__: entered on a byte boundary, it loads the
\* next byte and, while that byte is all thisbit and 8 bits remain, takes it whole.
RECURSIVE SkipFullBytes(_, _, _)
SkipFullBytes(it, count, full_byte) ==
    LET byte == it.data[it.next_index + 1]
        it1 == [it EXCEPT !.current_byte = byte, !.next_index = @ + 1]
    IN  IF byte # full_byte \/ it1.remaining < 8
        THEN [it |-> it1, count |-> count]
        ELSE LET it2 == [it1 EXCEPT !.remaining = @ - 8]
             IN  IF it2.remaining = 0
                 THEN [it |-> it2, count |-> count + 8]
                 ELSE SkipFullBytes(it2, count + 8, full_byte)

\* The outer loop ending the run at every byte boundary.
RECURSIVE ScanRun_BreakAtByte(_, _, _)
ScanRun_BreakAtByte(it, count, thisbit) ==
    LET it1 == [it EXCEPT !.remaining = @ - 1]
    IN  IF it1.remaining = 0
        THEN [it |-> it1, count |-> count]
        ELSE LET bit2 == it1.current_bit \div 2
             IN  IF bit2 = 0
                 THEN [it |-> [it1 EXCEPT !.current_bit = 128,
                                          !.current_byte = it1.data[it1.next_index + 1],
                                          !.next_index = @ + 1],
                       count |-> count]
                 ELSE LET it2 == [it1 EXCEPT !.current_bit = bit2]
                      IN  IF BitSet(it2.current_byte, bit2) # thisbit
                          THEN [it |-> it2, count |-> count]
                          ELSE ScanRun_BreakAtByte(it2, count + 1, thisbit)

\* The outer `while True` of __next__, from its first statement.
RECURSIVE ScanRun(_, _, _)
ScanRun(it, count, thisbit) ==
    LET full_byte == IF thisbit THEN 255 ELSE 0
        it1 == [it EXCEPT !.remaining = @ - 1]
    IN  IF it1.remaining = 0
        THEN [it |-> it1, count |-> count]
        ELSE LET bit2 == it1.current_bit \div 2
                 r == IF bit2 = 0
                      THEN SkipFullBytes([it1 EXCEPT !.current_bit = 128],
                                         count, full_byte)
                      ELSE [it |-> [it1 EXCEPT !.current_bit = bit2],
                            count |-> count]
             IN  IF r.it.remaining = 0
                 THEN r
                 ELSE IF BitSet(r.it.current_byte, r.it.current_bit) # thisbit
                      THEN r
                      ELSE ScanRun(r.it, r.count + 1, thisbit)

\* __next__ with remaining > 0: the iterator afterwards and the pair returned
IterNext(it) ==
    LET thisbit == BitSet(it.current_byte, it.current_bit)
        r == ScanRun(it, 1, thisbit)
    IN  [it |-> r.it, value |-> thisbit, count |-> r.count]

\* list(PixelRunIterator(...)): every pair up to StopIteration
RECURSIVE Drain(_)
Drain(it) ==
    IF it.remaining = 0
    THEN <<>>
    ELSE LET r == IterNext(it) IN <<[value |-> r.value, count |-> r.count]>> \o Drain(r.it)

\* the runs of the whole row, whatever range is asked for
PixelRuns_WholeRow(pixeldata, begin, end) == Drain(PixelRunIterator(pixeldata, 0, None))

PixelRuns(pixeldata, begin, end) == Drain(PixelRunIterator(pixeldata, begin, end))

(***************************************************************************)
(* PackBitsStream                                                          *)
(*                                                                         *)
(* A stream is [buffer, sent, units]: `buffer` is self.buffer; `sent` is   *)
(* the transmit sink, the buffers handed to send_cmd.send in call order;   *)
(* `units` is a history of the units (header byte, payload) appended to    *)
(* the buffer, in order. The code never reads `sent` or `units`.           *)
(***************************************************************************)
MAX_BYTES_IN_REQUEST == 48

\* a keep-pending threshold one byte higher
KeepPending_OneMore == MAX_BYTES_IN_REQUEST - 2

MAX_BYTES_TO_KEEP_PENDING == 45

\* PackBitsStream.LITERAL, PackBitsStream.LITERAL_DCX
LITERAL == -1

LITERAL_DCX == -2

\* __init__
NewStream == [buffer |-> <<>>, sent |-> <<>>, units |-> <<>>, steps |-> <<>>]

\* flush() without its `if self.buffer` test
StreamFlush_Unconditional(s) ==
    [s EXCEPT !.sent = Append(@, s.buffer), !.buffer = <<>>]

\* flush(): one send of the pending buffer if it is not empty
StreamFlush(s) ==
    IF s.buffer # <<>>
    THEN [s EXCEPT !.sent = Append(@, s.buffer), !.buffer = <<>>]
    ELSE s

\* the space left, the header byte not counted
RemainingSpace_NoHeader(s) == MAX_BYTES_IN_REQUEST - Len(s.buffer)

\* the space left for a unit's payload in the pending buffer
RemainingSpace(s) == MAX_BYTES_IN_REQUEST - Len(s.buffer) - 1

\* a literal chunk given the header of a command chunk
HeaderByte_KeepsDcx(header, data) ==
    IF header = LITERAL \/ header = LITERAL_DCX THEN Len(data) - 1
    ELSE header + 126

\* literal headers one too high: len(data) + 64
HeaderByte_LiteralOffByOne(header, data) ==
    IF header = LITERAL THEN Len(data) + 64
    ELSE IF header = LITERAL_DCX THEN Len(data) - 1
    ELSE header + 126

\* the header byte of a unit
HeaderByte(header, data) ==
    IF header = LITERAL THEN Len(data) + 63
    ELSE IF header = LITERAL_DCX THEN Len(data) - 1
    ELSE header + 126

\* the threshold test made between the header byte and the data
AppendUnit_CutsUnit(s, header, data) ==
    LET hb == HeaderByte(header, data)
        s1 == [s EXCEPT !.buffer = Append(@, hb),
                        !.units = Append(@, [header |-> hb, data |-> data])]
        s2 == IF Len(s1.buffer) + Len(data) >= MAX_BYTES_TO_KEEP_PENDING
              THEN StreamFlush(s1) ELSE s1
        s3 == [s2 EXCEPT !.buffer = @ \o data]
    IN  IF Len(s3.buffer) >= MAX_BYTES_TO_KEEP_PENDING THEN StreamFlush(s3) ELSE s3

\* the threshold test letting one more byte stay pending
AppendUnit_FlushLate(s, header, data) ==
    LET hb == HeaderByte(header, data)
        s1 == [s EXCEPT !.buffer = (@ \o <<hb>>) \o data,
                        !.units = Append(@, [header |-> hb, data |-> data])]
    IN  IF Len(s1.buffer) > MAX_BYTES_TO_KEEP_PENDING THEN StreamFlush(s1) ELSE s1

\* the `else` branch of _extend_buffer: append header and data, flush when
\* the pending buffer has reached MAX_BYTES_TO_KEEP_PENDING
AppendUnit(s, header, data) ==
    LET hb == HeaderByte(header, data)
        s1 == [s EXCEPT !.buffer = (@ \o <<hb>>) \o data,
                        !.units = Append(@, [header |-> hb, data |-> data])]
    IN  IF Len(s1.buffer) >= MAX_BYTES_TO_KEEP_PENDING THEN StreamFlush(s1) ELSE s1

\* the second piece taken one byte too late: data[remaining + 1:]
SplitRest_OffByOne(data, remaining) == Drop(data, remaining + 1)

\* the second piece of a literal or command that did not fit: data[remaining:]
SplitRest(data, remaining) == Drop(data, remaining)

\* _extend_buffer(header, data); `steps` logs the `remaining` each call
\* computes
RECURSIVE ExtendBuffer(_, _, _)
ExtendBuffer(s0, header, data) ==
    IF data = <<>> THEN s0
    ELSE LET remaining == RemainingSpace(s0)
             s == [s0 EXCEPT !.steps = Append(@, remaining)]
         IN  IF Len(data) > remaining
             THEN IF header = LITERAL
                  THEN ExtendBuffer(ExtendBuffer(s, LITERAL, Take(data, remaining)),
                                    LITERAL, SplitRest(data, remaining))
                  ELSE IF header = LITERAL_DCX
                  THEN ExtendBuffer(ExtendBuffer(s, LITERAL_DCX, Take(data, remaining)),
                                    LITERAL, SplitRest(data, remaining))
                  ELSE ExtendBuffer(StreamFlush(s), header, data)
             ELSE AppendUnit(s, header, data)

\* add_command(data)
AddCommand(s, data) == ExtendBuffer(s, LITERAL_DCX, data)

\* add_literal_data(data): for write_pos in range(0, data_len, 64)
RECURSIVE AddLiteralFrom(_, _, _)
AddLiteralFrom(s, data, write_pos) ==
    IF write_pos >= Len(data) THEN s
    ELSE LET nr_bytes == Min(64, Len(data) - write_pos)
         IN  AddLiteralFrom(
                 ExtendBuffer(s, LITERAL, SubSeq(data, write_pos + 1, write_pos + nr_bytes)),
                 data, write_pos + 64)

AddLiteralData(s, data) == AddLiteralFrom(s, data, 0)

\* sections of at most 128 repeats
RepeatSection_128(runlength) == Min(128, runlength)

\* the size of the next section of a repeat: min(129, runlength)
RepeatSection(runlength) == Min(129, runlength)

\* add_repeating_data(runlength, data)
RECURSIVE AddRepeatingData(_, _, _)
AddRepeatingData(s, runlength, data) ==
    IF runlength > 0
    THEN LET section == RepeatSection(runlength)
         IN  AddRepeatingData(ExtendBuffer(s, section, data), runlength - section, data)
    ELSE s

(***************************************************************************)
(* BitmapWriterHelper                                                      *)
(*                                                                         *)
(* A writer is the object's fields plus `log`, a history of the calls it   *)
(* made on its stream. literal_buffer None is <<>>: the code only tests    *)
(* `not self.literal_buffer`. last_row, last_begin, last_end start None.   *)
(***************************************************************************)
ST7796S_RAMWR == 44

ST7796S_RASET == 43

ST7796S_CASET == 42

\* the module global MAX_ROW, the y_end of every RASET
MAX_ROW == 320

\* (value >> 8) & 0xff, value & 0xff
Hi(value) == (value \div 256) % 256

Lo(value) == value % 256

\* __init__(display, fgcolor, bgcolor, start_x, start_y)
BitmapWriterHelper(fgcolor, bgcolor, start_x, start_y) ==
    [stream |-> NewStream, fgcolor |-> fgcolor, bgcolor |-> bgcolor,
     start_x |-> start_x, start_y |-> start_y,
     literal_buffer |-> <<>>,
     last_row |-> None, last_begin |-> None, last_end |-> None,
     log |-> <<>>]

LogEntry(op, data, runlength) == [op |-> op, data |-> data, runlength |-> runlength]

\* self.stream.add_command(data)
WriterCommand(w, data) ==
    [w EXCEPT !.stream = AddCommand(@, data),
              !.log = Append(@, LogEntry("command", data, 0))]

\* _flush_literal_buffer() leaving the buffered bytes where they are
FlushLiteralBuffer_Keep(w) == w

\* _flush_literal_buffer()
FlushLiteralBuffer(w) ==
    IF w.literal_buffer = <<>>
    THEN w
    ELSE [w EXCEPT !.stream = AddLiteralData(@, w.literal_buffer),
                   !.log = Append(@, LogEntry("literal", w.literal_buffer, 0)),
                   !.literal_buffer = <<>>]

\* flush() under `if self.last_row:`
WriterFlush_IfLastRow(w) ==
    IF w.last_row # None /\ w.last_row # 0
    THEN LET w1 == FlushLiteralBuffer(w)
         IN  [w1 EXCEPT !.stream = StreamFlush(@)]
    ELSE w

\* flush()
WriterFlush(w) ==
    IF w.last_row # None
    THEN LET w1 == FlushLiteralBuffer(w)
         IN  [w1 EXCEPT !.stream = StreamFlush(@)]
    ELSE w

\* `not self.last_row`: None or row 0
NotLastRow(w) == w.last_row = None \/ w.last_row = 0

\* caset_update from `begin` alone
CasetUpdate_BeginOnly(w, row, begin, end) == begin # w.last_begin

\* caset_update as write() decides it
CasetUpdate(w, row, begin, end) == begin # w.last_begin \/ end # w.last_end

\* raset_update as write() decides it
RasetUpdate(w, row, begin, end) ==
    IF begin # w.last_begin \/ end # w.last_end
    THEN NotLastRow(w) \/ w.last_row # row
    ELSE NotLastRow(w) \/ (w.last_row + 1) # row

CasetCommand(w, begin, end) ==
    LET x_begin == begin + w.start_x
        x_end == end + w.start_x - 1
    IN  <<ST7796S_CASET, Hi(x_begin), Lo(x_begin), Hi(x_end), Lo(x_end)>>

RasetCommand(w, row) ==
    LET y_begin == row + w.start_y
        y_end == MAX_ROW - 1
    IN  <<ST7796S_RASET, Hi(y_begin), Lo(y_begin), Hi(y_end), Lo(y_end)>>

\* the `for is_foreground, runlength in PixelRunIterator(data, begin, end)` loop
RECURSIVE WritePixelRuns(_, _)
WritePixelRuns(w, rs) ==
    IF rs = <<>> THEN w
    ELSE LET value == IF Head(rs).value THEN w.fgcolor ELSE w.bgcolor
             color == <<Hi(value), Lo(value)>>
             w1 == IF Head(rs).count < 2
                   THEN [w EXCEPT !.literal_buffer = @ \o color]
                   ELSE LET w2 == FlushLiteralBuffer(w)
                        IN  [w2 EXCEPT
                               !.stream = AddRepeatingData(@, Head(rs).count, color),
                               !.log = Append(@, LogEntry("repeat", color, Head(rs).count))]
         IN  WritePixelRuns(w1, Tail(rs))

\* write(row, data, begin, end)
WriterWrite(w, row, data, begin, end) ==
    LET caset_update == CasetUpdate(w, row, begin, end)
        raset_update == RasetUpdate(w, row, begin, end)
        w1 == [w EXCEPT !.last_begin = begin, !.last_end = end, !.last_row = row]
        w2 == IF caset_update \/ raset_update THEN FlushLiteralBuffer(w1) ELSE w1
        w3 == IF caset_update THEN WriterCommand(w2, CasetCommand(w2, begin, end)) ELSE w2
        w4 == IF raset_update THEN WriterCommand(w3, RasetCommand(w3, row)) ELSE w3
        w5 == IF caset_update \/ raset_update
              THEN WriterCommand(w4, <<ST7796S_RAMWR>>)
              ELSE w4
    IN  WritePixelRuns(w5, PixelRuns(data, begin, end))

(***************************************************************************)
(* Framebuffer                                                             *)
(*                                                                         *)
(* Rows are bytearray objects: `heap` maps an object to its bytes, and     *)
(* framebuffer / old_framebuffer are lists of objects (old_framebuffer of  *)
(* objects or None), so that two lists naming one object share its bytes.  *)
(***************************************************************************)

\* b1 ^ b2 on bytes
RECURSIVE XorBits(_, _, _)
XorBits(a, b, n) ==
    IF n = 0 THEN 0
    ELSE 2 * XorBits(a \div 2, b \div 2, n - 1) + ((a + b) % 2)

\* an exclusive-or of the low four bits only
Xor_LowNibble(a, b) == XorBits(a % 16, b % 16, 8)

Xor(a, b) == XorBits(a, b, 8)

\* b1 & b2 on bytes
RECURSIVE AndBits(_, _, _)
AndBits(a, b, n) ==
    IF n = 0 THEN 0
    ELSE 2 * AndBits(a \div 2, b \div 2, n - 1) + ((a % 2) * (b % 2))

And(a, b) == AndBits(a, b, 16)

\* b1 | b2 on bytes
Or(a, b) == a + b - And(a, b)

MAX_NR_CONSECUTIVE_UNCHANGED_PIXELS == 3

\* old_row None
NoRow == <<None>>

\* whether an unchanged run is folded into the range before it
MergesWithLast(runlength, changes) ==
    runlength <= MAX_NR_CONSECUTIVE_UNCHANGED_PIXELS /\ changes # <<>>

\* the `for value, runlength in PixelRunIterator(differences, 0, row_width)` loop
RECURSIVE WalkDifferences(_, _, _, _)
WalkDifferences(rs, changes, merge_with_last, current) ==
    IF rs = <<>> THEN changes
    ELSE LET runlength == Head(rs).count
             begin == current
             end == begin + runlength
         IN  IF Head(rs).value
             THEN IF merge_with_last
                  THEN WalkDifferences(Tail(rs),
                           Append(SubSeq(changes, 1, Len(changes) - 1),
                                  <<changes[Len(changes)][1], end>>),
                           FALSE, end)
                  ELSE WalkDifferences(Tail(rs), Append(changes, <<begin, end>>),
                                       merge_with_last, end)
             ELSE IF MergesWithLast(runlength, changes)
                  THEN WalkDifferences(Tail(rs), changes, TRUE, end)
                  ELSE WalkDifferences(Tail(rs), changes, merge_with_last, end)

\* get_pixel_changes taking the start of the row for an open range
GetPixelChanges_MergeLeading(old_row, new_row, row_width) ==
    IF old_row = NoRow THEN << <<0, row_width>> >>
    ELSE IF old_row = new_row THEN <<>>
    ELSE LET differences == [i \in 1..Min(Len(old_row), Len(new_row)) |->
                                Xor(old_row[i], new_row[i])]
         IN  WalkDifferences(PixelRuns(differences, 0, row_width), << <<0, 0>> >>, TRUE, 0)

\* get_pixel_changes returning its ranges last one first
GetPixelChanges_Descending(old_row, new_row, row_width) ==
    IF old_row = NoRow THEN << <<0, row_width>> >>
    ELSE IF old_row = new_row THEN <<>>
    ELSE LET differences == [i \in 1..Min(Len(old_row), Len(new_row)) |->
                                Xor(old_row[i], new_row[i])]
             c == WalkDifferences(PixelRuns(differences, 0, row_width), <<>>, FALSE, 0)
         IN  [i \in 1..Len(c) |-> c[Len(c) + 1 - i]]

\* get_pixel_changes(old_row, new_row, row_width): a list of (begin, end)
GetPixelChanges(old_row, new_row, row_width) ==
    IF old_row = NoRow THEN << <<0, row_width>> >>
    ELSE IF old_row = new_row THEN <<>>
    ELSE LET differences == [i \in 1..Min(Len(old_row), Len(new_row)) |->
                                Xor(old_row[i], new_row[i])]
         IN  WalkDifferences(PixelRuns(differences, 0, row_width), <<>>, FALSE, 0)

\* Framebuffer.__init__: the geometry and colours of the one grid modelled
SizeX == 8

SizeY == 3

OriginX == 2

OriginY == 1

FgColor == 65535

BgColor == 0

\* self.nr_columns = size_x // 8
NrColumns == SizeX \div 8

\* the row objects: at most SizeY in framebuffer and SizeY others in old_framebuffer
Refs == 1..(2 * SizeY)

\* __makebuffer(): one bytearray(size_x) per row
NewRow == [i \in 1..SizeX |-> 0]

\* a heap without the objects no list names any more
Collect(h, fbuf, old) ==
    [r \in Refs |-> IF (\E i \in 1..Len(fbuf) : fbuf[i] = r) \/ (\E i \in 1..Len(old) : old[i] = r)
                    THEN h[r] ELSE <<>>]

\* the SizeY lowest objects that old_framebuffer does not name
RECURSIVE FreshRefs(_, _, _)
FreshRefs(old, n, r) ==
    IF n = 0 THEN <<>>
    ELSE IF \E i \in 1..Len(old) : old[i] = r
         THEN FreshRefs(old, n, r + 1)
         ELSE <<r>> \o FreshRefs(old, n - 1, r + 1)

\* clear() zeroing the rows of framebuffer where they are
Clear_InPlace(fb) ==
    [fb EXCEPT !.heap = [r \in Refs |-> IF \E i \in 1..Len(fb.framebuffer) : fb.framebuffer[i] = r
                                        THEN NewRow ELSE fb.heap[r]]]

\* clear(): self.framebuffer = self.__makebuffer()
Clear(fb) ==
    LET fresh == FreshRefs(fb.old_framebuffer, SizeY, 1)
        h == [r \in Refs |-> IF \E i \in 1..Len(fresh) : fresh[i] = r THEN NewRow ELSE fb.heap[r]]
    IN  [fb EXCEPT !.framebuffer = fresh,
                   !.heap = Collect(h, fresh, fb.old_framebuffer)]

\* Framebuffer.__init__
NewFramebuffer ==
    LET fresh == [i \in 1..SizeY |-> i]
    IN  [heap |-> [r \in Refs |-> IF r <= SizeY THEN NewRow ELSE <<>>],
         framebuffer |-> fresh,
         old_framebuffer |-> [i \in 1..SizeY |-> None]]

\* the bytes of old_framebuffer[row] (None: NoRow) and of framebuffer[row]
OldRow(fb, row) ==
    IF fb.old_framebuffer[row + 1] = None THEN NoRow ELSE fb.heap[fb.old_framebuffer[row + 1]]

CurRow(fb, row) == fb.heap[fb.framebuffer[row + 1]]

\* a flush in progress: the writer and the write calls made so far
RECURSIVE WriteChanges(_, _, _, _)
WriteChanges(f, row, new_row, changes) ==
    IF changes = <<>> THEN f
    ELSE LET c == Head(changes)
         IN  WriteChanges(
                 [writer |-> WriterWrite(f.writer, row, new_row, c[1], c[2]),
                  writes |-> Append(f.writes, <<row, c[1], c[2]>>)],
                 row, new_row, Tail(changes))

\* flush(): `for row in range(self.size_y)`
RECURSIVE FlushRows(_, _, _)
FlushRows(fb, f, row) ==
    IF row >= SizeY THEN f
    ELSE FlushRows(fb,
             WriteChanges(f, row, CurRow(fb, row),
                          GetPixelChanges(OldRow(fb, row), CurRow(fb, row), SizeX)),
             row + 1)

\* full_flush() writing only what differs from `previous`, as flush() does
FullFlushRows_Diff(fb, f, row) == FlushRows(fb, f, row)

\* full_flush(): `for row in range(self.size_y)`
RECURSIVE FullFlushRows(_, _, _)
FullFlushRows(fb, f, row) ==
    IF row >= SizeY THEN f
    ELSE FullFlushRows(fb,
             WriteChanges(f, row, CurRow(fb, row), << <<0, SizeX>> >>),
             row + 1)

\* a flush going on with the writer of a flush that wrote every row in full
NewFlush_StaleWriter ==
    [writer |-> [BitmapWriterHelper(FgColor, BgColor, OriginX, OriginY)
                     EXCEPT !.last_row = SizeY - 1, !.last_begin = 0, !.last_end = SizeX],
     writes |-> <<>>]

NewFlush == [writer |-> BitmapWriterHelper(FgColor, BgColor, OriginX, OriginY), writes |-> <<>>]

\* a flush wrongly keeping the previous snapshot
KeepOld(fb) == fb.old_framebuffer

\* self.old_framebuffer[:] = self.framebuffer: the list's items, not the rows' bytes
CopyToOld(fb) == fb.framebuffer

\* flush() / full_flush(): the grid afterwards, the write calls and the writer
FlushEnd(fb, f) ==
    LET old == CopyToOld(fb)
    IN  [fb |-> [fb EXCEPT !.old_framebuffer = old,
                           !.heap = Collect(fb.heap, fb.framebuffer, old)],
         writes |-> f.writes,
         writer |-> WriterFlush(f.writer)]

Flush(fb) == FlushEnd(fb, FlushRows(fb, NewFlush, 0))

FullFlush(fb) == FlushEnd(fb, FullFlushRows(fb, NewFlush, 0))

\* A draw leaves the grid, and whether it raised IndexError on the way.
Drawn(fb, raised) == [fb |-> fb, raised |-> raised]

\* self.framebuffer[row][col] = value, for row and col in range
SetByte(fb, row, col, value) ==
    [fb EXCEPT !.heap[fb.framebuffer[row + 1]][col + 1] = value]

InRange(fb, row, col) ==
    /\ row >= 0 /\ row < Len(fb.framebuffer)
    /\ col >= 0 /\ col < Len(CurRow(fb, row))

\* write_graphics(_x, _y, data): `for row, content in enumerate(data)`
RECURSIVE WriteGraphicsFrom(_, _, _, _, _)
WriteGraphicsFrom(fb, _x, top_row, data, row) ==
    IF row >= Len(data) THEN Drawn(fb, FALSE)
    ELSE IF ~InRange(fb, top_row + row, _x) THEN Drawn(fb, TRUE)
    ELSE WriteGraphicsFrom(SetByte(fb, top_row + row, _x, data[row + 1]),
                           _x, top_row, data, row + 1)

WriteGraphics(fb, _x, _y, data) == WriteGraphicsFrom(fb, _x, _y * 16, data, 0)

\* write_text: `for row in range(14)` of one character
RECURSIVE WriteCharFrom(_, _, _, _, _)
WriteCharFrom(fb, _x, top_row, font_char, row) ==
    IF row >= 14 THEN Drawn(fb, FALSE)
    ELSE IF ~InRange(fb, top_row + row, _x) THEN Drawn(fb, TRUE)
    ELSE WriteCharFrom(SetByte(fb, top_row + row, _x, font_char[row + 1]),
                       _x, top_row, font_char, row + 1)

\* write_text: `for char in data`, data given as the characters' font rows
RECURSIVE WriteChars(_, _, _, _)
WriteChars(fb, _x, top_row, data) ==
    IF data = <<>> THEN Drawn(fb, FALSE)
    ELSE LET d == WriteCharFrom(fb, _x, top_row, Head(data), 0)
         IN  IF d.raised THEN d ELSE WriteChars(d.fb, _x + 1, top_row, Tail(data))

\* write_text(_x, _y, data)
WriteText(fb, _x, _y, data) ==
    LET data1 == IF _x + Len(data) > NrColumns
                 THEN Take(data, NrColumns - Min(_x, NrColumns))
                 ELSE data
    IN  WriteChars(fb, _x, 16 * _y, data1)

\* x >> n and (x << n) on naturals
Shr(x, n) == x \div (2 ^ n)

Shl(x, n) == x * (2 ^ n)

\* write_bitmap: `for col in range(nr_columns)` of one bitmap row; d.carry is carry
RECURSIVE WriteBitmapCols(_, _, _, _, _, _, _, _)
WriteBitmapCols(fb, out_row, start_column, row_data, shift_bits, carry, nr_columns, col) ==
    IF col >= nr_columns THEN [fb |-> fb, raised |-> FALSE, carry |-> carry]
    ELSE IF ~InRange(fb, out_row, start_column + col)
         THEN [fb |-> fb, raised |-> TRUE, carry |-> carry]
    ELSE WriteBitmapCols(
             SetByte(fb, out_row, start_column + col,
                     Or(carry, Shr(row_data[col + 1], shift_bits))),
             out_row, start_column, row_data, shift_bits,
             And(Shl(row_data[col + 1], 8 - shift_bits), 255),
             nr_columns, col + 1)

\* write_bitmap: the body of `for row, row_data in enumerate(bitmap)`
WriteBitmapRow(fb, _x, out_row, row_data) ==
    LET shift_bits == _x % 8
        carry_bits == 8 - shift_bits
        start_column == _x \div 8
    IN  IF ~InRange(fb, out_row, start_column) THEN Drawn(fb, TRUE)
        ELSE LET carry0 == And(CurRow(fb, out_row)[start_column + 1], Shl(255, carry_bits))
                 nr_columns == Min(Len(row_data), SizeX - start_column)
                 d == WriteBitmapCols(fb, out_row, start_column, row_data, shift_bits,
                                      carry0, nr_columns, 0)
                 end_column == nr_columns + start_column
             IN  IF d.raised THEN Drawn(d.fb, TRUE)
                 ELSE IF shift_bits > 0 /\ end_column < SizeX
                 THEN IF ~InRange(d.fb, out_row, end_column) THEN Drawn(d.fb, TRUE)
                      ELSE Drawn(SetByte(d.fb, out_row, end_column,
                                   Or(And(CurRow(d.fb, out_row)[end_column + 1],
                                          Shr(255, shift_bits)),
                                      d.carry)),
                                 FALSE)
                 ELSE Drawn(d.fb, FALSE)

RECURSIVE WriteBitmapFrom(_, _, _, _, _)
WriteBitmapFrom(fb, _x, _y, bitmap, row) ==
    IF row >= Len(bitmap) THEN Drawn(fb, FALSE)
    ELSE LET d == WriteBitmapRow(fb, _x, _y + row, bitmap[row + 1])
         IN  IF d.raised THEN d ELSE WriteBitmapFrom(d.fb, _x, _y, bitmap, row + 1)

\* write_bitmap(_x, _y, bitmap)
WriteBitmap(fb, _x, _y, bitmap) ==
    IF bitmap = <<>> THEN Drawn(fb, FALSE) ELSE WriteBitmapFrom(fb, _x, _y, bitmap, 0)

\* row[lo:hi] = content on a bytearray
SliceAssign(row, lo, hi, content) == (Take(row, lo) \o content) \o Drop(row, Max(hi, lo))

\* write_framebuffer(fb): src is the other grid, [origin_x, origin_y, end_x, framebuffer]
RECURSIVE WriteFramebufferFrom(_, _, _)
WriteFramebufferFrom(fb, src, row) ==
    IF row >= Len(src.framebuffer) THEN Drawn(fb, FALSE)
    ELSE IF src.origin_y + row >= Len(fb.framebuffer) THEN Drawn(fb, TRUE)
    ELSE WriteFramebufferFrom(
             [fb EXCEPT !.heap[fb.framebuffer[src.origin_y + row + 1]] =
                            SliceAssign(@, src.origin_x, src.end_x, src.framebuffer[row + 1])],
             src, row + 1)

WriteFramebuffer(fb, src) == WriteFramebufferFrom(fb, src, 0)

(***************************************************************************)
(* The display at the far end of the transmit sink, as the panel's         *)
(* controller acts on the requests: CASET and RASET set the window         *)
(* [xs, xe] x [ys, ye], RAMWR puts the write cursor at (xs, ys), and every *)
(* pixel (two data bytes) is written at the cursor, which then moves one   *)
(* column on and, past xe, to column xs of the next row.                   *)
(* A request is a run of units: header 0..63 a command unit of header + 1  *)
(* bytes (the first one the command byte), 64..126 a literal unit of       *)
(* header - 63 data bytes, 127..255 a 2-byte value repeated header - 126   *)
(* times.                                                                  *)
(***************************************************************************)
Item(cmd, byte) == [cmd |-> cmd, byte |-> byte]

RECURSIVE RequestItems(_)
RequestItems(bytes) ==
    IF bytes = <<>> THEN <<>>
    ELSE LET h == Head(bytes)
         IN  IF h < 64
             THEN ([i \in 1..(h + 1) |-> Item(i = 1, bytes[i + 1])])
                      \o RequestItems(Drop(bytes, h + 2))
             ELSE IF h < 127
             THEN ([i \in 1..(h - 63) |-> Item(FALSE, bytes[i + 1])])
                      \o RequestItems(Drop(bytes, h - 62))
             ELSE ([i \in 1..(2 * (h - 126)) |-> Item(FALSE, bytes[2 + ((i - 1) % 2)])])
                      \o RequestItems(Drop(bytes, 3))

\* the panel holding `pix` (SizeY rows of SizeX colours, the grid's region)
NewDevice(pix) ==
    [xs |-> 0, xe |-> 0, ys |-> 0, ye |-> 0, cx |-> 0, cy |-> 0,
     cmd |-> 0, params |-> <<>>, pix |-> pix, stray |-> FALSE]

\* one pixel written at the cursor; stray: a pixel written outside the grid's region
DevicePixel(d, color) ==
    LET col == d.cx - OriginX
        row == d.cy - OriginY
        inside == col >= 0 /\ col < SizeX /\ row >= 0 /\ row < SizeY
        d1 == IF inside THEN [d EXCEPT !.pix[row + 1][col + 1] = color]
              ELSE [d EXCEPT !.stray = TRUE]
    IN  IF d.cx >= d.xe
        THEN [d1 EXCEPT !.cx = d.xs, !.cy = IF d.cy >= d.ye THEN d.ys ELSE d.cy + 1,
                        !.params = <<>>]
        ELSE [d1 EXCEPT !.cx = d.cx + 1, !.params = <<>>]

DeviceItem(d, item) ==
    IF item.cmd
    THEN IF item.byte = ST7796S_RAMWR
         THEN [d EXCEPT !.cmd = item.byte, !.params = <<>>, !.cx = d.xs, !.cy = d.ys]
         ELSE [d EXCEPT !.cmd = item.byte, !.params = <<>>]
    ELSE LET ps == Append(d.params, item.byte)
         IN  IF d.cmd = ST7796S_CASET
             THEN IF Len(ps) = 4
                  THEN [d EXCEPT !.xs = 256 * ps[1] + ps[2], !.xe = 256 * ps[3] + ps[4],
                                 !.params = ps]
                  ELSE [d EXCEPT !.params = ps]
             ELSE IF d.cmd = ST7796S_RASET
             THEN IF Len(ps) = 4
                  THEN [d EXCEPT !.ys = 256 * ps[1] + ps[2], !.ye = 256 * ps[3] + ps[4],
                                 !.params = ps]
                  ELSE [d EXCEPT !.params = ps]
             ELSE IF d.cmd = ST7796S_RAMWR
             THEN IF Len(ps) = 2 THEN DevicePixel(d, 256 * ps[1] + ps[2])
                  ELSE [d EXCEPT !.params = ps]
             ELSE d

\* the panel after items i.. of a request
RECURSIVE DeviceItemsFrom(_, _, _)
DeviceItemsFrom(d, items, i) ==
    IF i > Len(items) \/ d.cx < 0 THEN d
    ELSE DeviceItemsFrom(DeviceItem(d, items[i]), items, i + 1)

DeviceItems(d, items) == DeviceItemsFrom(d, items, 1)

\* the panel after the requests `sent`, in order
RECURSIVE DeviceRequests(_, _)
DeviceRequests(d, sent) ==
    IF sent = <<>> THEN d
    ELSE DeviceRequests(DeviceItems(d, RequestItems(Head(sent))), Tail(sent))

\* the colours of a row of the grid; NoRow: colours unknown (None)
RowColors(row) ==
    [c \in 1..SizeX |-> IF row = NoRow THEN None
                        ELSE IF BitAt(row, c - 1) THEN FgColor ELSE BgColor]

----------------------------------------------------------------------------
(***************************************************************************)
(* The objects a specification does not exercise stay as constructed.      *)
(***************************************************************************)
NoCall == [op |-> "none", data |-> <<>>, runlength |-> 0, before |-> NewStream]

NoWriter == BitmapWriterHelper(FgColor, BgColor, OriginX, OriginY)

NoWrite == [op |-> "none", row |-> 0, data |-> <<>>, begin |-> 0, end |-> 0, before |-> NoWriter]

NoFlush == [writes |-> <<>>, sent |-> <<>>, device |-> <<>>, stray |-> FALSE,
            had_previous |-> FALSE, snapshot |-> <<>>, pending |-> <<>>]

IterIdle ==
    /\ iter = PixelRunIterator(<<>>, 0, None)
    /\ iter_args = [pixeldata |-> <<>>, begin |-> 0, end |-> None]
    /\ runs = <<>>
    /\ iter_done = FALSE

StreamIdle ==
    /\ stream = NewStream
    /\ calls = 0
    /\ last_call = NoCall

DiffIdle ==
    /\ diff_args = [old_row |-> NoRow, new_row |-> <<>>, row_width |-> 0]
    /\ diff_result = <<>>
    /\ diff_done = FALSE

WriterIdle ==
    /\ writer = NoWriter
    /\ writes = 0
    /\ last_write = NoWrite

FbIdle ==
    /\ menu_framebuffer = NewFramebuffer
    /\ last_op = "init"
    /\ prev_op = "init"
    /\ op_raised = FALSE
    /\ last_flush = NoFlush
    /\ ops = 0

(***************************************************************************)
(* SpecIter: one PixelRunIterator, constructed on inputs drawn from        *)
(* bounded sets and stepped by __next__ until StopIteration.               *)
(***************************************************************************)
MaxIterBytes == 3

\* how far begin and end may lie beyond the end of the data
MaxIterOver == 2

IterByteVals == {0, 255, 15, 165}

InitIter ==
    /\ \E pixeldata \in SeqsUpTo(IterByteVals, MaxIterBytes) :
        \E begin \in 0..(8 * Len(pixeldata) + MaxIterOver) :
          \E end \in {None} \cup 0..(8 * Len(pixeldata) + MaxIterOver) :
            /\ iter = PixelRunIterator(pixeldata, begin, end)
            /\ iter_args = [pixeldata |-> pixeldata, begin |-> begin, end |-> end]
            /\ runs = <<>>
            /\ iter_done = FALSE
    /\ StreamIdle /\ DiffIdle /\ WriterIdle /\ FbIdle

IterNextCall ==
    /\ ~iter_done
    /\ iter.remaining # 0
    /\ LET r == IterNext(iter)
       IN  /\ iter' = r.it
           /\ runs' = Append(runs, [value |-> r.value, count |-> r.count])
    /\ UNCHANGED <<iter_args, iter_done>>
    /\ UNCHANGED <<streamVars, diffVars, writerVars, fbVars>>

IterStop ==
    /\ ~iter_done
    /\ iter.remaining = 0
    /\ iter_done' = TRUE
    /\ UNCHANGED <<iter, iter_args, runs>>
    /\ UNCHANGED <<streamVars, diffVars, writerVars, fbVars>>

NextIter == IterNextCall \/ IterStop

SpecIter == InitIter /\ [][NextIter]_vars

\* the pairs expanded to one boolean per bit
RECURSIVE ExpandRuns(_)
ExpandRuns(rs) ==
    IF rs = <<>> THEN <<>>
    ELSE [i \in 1..Head(rs).count |-> Head(rs).value] \o ExpandRuns(Tail(rs))

RunLengths(rs) == [i \in 1..Len(rs) |-> rs[i].count]

\* C6: for 0 <= begin <= end <= 8*len(data), the run lengths sum to end - begin
\* and the expanded runs are bits begin..end-1 of data.
C6_RunsReproduceBits ==
    (iter_done /\ iter_args.end # None
       /\ iter_args.begin <= iter_args.end
       /\ iter_args.end <= 8 * Len(iter_args.pixeldata))
    => /\ SumSeq(RunLengths(runs)) = iter_args.end - iter_args.begin
       /\ ExpandRuns(runs) = [i \in 1..(iter_args.end - iter_args.begin) |->
                                 BitAt(iter_args.pixeldata, iter_args.begin + i - 1)]


\* C26: a zero-length range (begin = end, 0 = 0 included) and a begin at or
\* beyond 8*len(data) yield no run; an end beyond 8*len(data) is clamped, the
\* run lengths then summing to 8*len(data) - begin.
C26_DegenerateRanges ==
    iter_done =>
        LET bits == 8 * Len(iter_args.pixeldata)
        IN  /\ (iter_args.begin = iter_args.end \/ iter_args.begin >= bits) => runs = <<>>
            /\ (iter_args.end # None /\ iter_args.end > bits /\ iter_args.begin < bits)
                 => SumSeq(RunLengths(runs)) = bits - iter_args.begin

\* C27: every run returned is at least one bit long and has the value
\* opposite to the run before it.
C27_RunsAreMaximal ==
    /\ \A i \in 1..Len(runs) : runs[i].count >= 1
    /\ \A i \in 1..(Len(runs) - 1) : runs[i].value # runs[i + 1].value

\* a drained iterator over three bytes, begun inside the first byte, with a
\* run that crosses a byte boundary and one that takes a whole byte
C27_Witness ==
    /\ iter_done
    /\ iter_args.pixeldata = <<15, 255, 165>>
    /\ iter_args.begin = 2
    /\ iter_args.end = 24
    /\ Len(runs) >= 4
    /\ runs[2].count = 13

----------------------------------------------------------------------------
(***************************************************************************)
(* SpecStream: one PackBitsStream and its transmit sink, under at most     *)
(* MaxCalls calls of add_command, add_literal_data, add_repeating_data and *)
(* flush. The packer never reads a payload byte, only lengths, so payloads *)
(* are one pattern of bytes that differ by position.                       *)
(***************************************************************************)
MaxCalls == 2

MaxLiteralLen == 48

MaxCommandLen == 16

\* payloads longer than one request, and longer than one 64-byte chunk
LongLiteralLens == {64, 65, 130}

LongCommandLens == {48, 60, 100}

Runlengths == {0, 1, 2, 3, 128, 129, 130, 200, 258, 259, 260}

RepeatValues == {<<18, 52>>}

Payload(n, first) == [i \in 1..n |-> (first + i - 1) % 256]

InitStream == IterIdle /\ StreamIdle /\ DiffIdle /\ WriterIdle /\ FbIdle

Call(op, data, runlength) ==
    [op |-> op, data |-> data, runlength |-> runlength, before |-> stream]

StreamNew ==
    /\ calls > 0
    /\ stream' = NewStream
    /\ calls' = 0
    /\ last_call' = NoCall
    /\ UNCHANGED <<iterVars, diffVars, writerVars, fbVars>>

StreamAddCommand ==
    /\ calls < MaxCalls
    /\ \E n \in (0..MaxCommandLen) \cup LongCommandLens :
         LET data == Payload(n, 42)
         IN  /\ stream' = AddCommand(stream, data)
             /\ last_call' = Call("command", data, 0)
    /\ calls' = calls + 1
    /\ UNCHANGED <<iterVars, diffVars, writerVars, fbVars>>

StreamAddLiteralData ==
    /\ calls < MaxCalls
    /\ \E n \in (0..MaxLiteralLen) \cup LongLiteralLens :
         LET data == Payload(n, 1)
         IN  /\ stream' = AddLiteralData(stream, data)
             /\ last_call' = Call("literal", data, 0)
    /\ calls' = calls + 1
    /\ UNCHANGED <<iterVars, diffVars, writerVars, fbVars>>

StreamAddRepeatingData ==
    /\ calls < MaxCalls
    /\ \E runlength \in Runlengths, data \in RepeatValues :
         /\ stream' = AddRepeatingData(stream, runlength, data)
         /\ last_call' = Call("repeat", data, runlength)
    /\ calls' = calls + 1
    /\ UNCHANGED <<iterVars, diffVars, writerVars, fbVars>>

StreamFlushCall ==
    /\ calls < MaxCalls
    /\ stream' = StreamFlush(stream)
    /\ last_call' = Call("flush", <<>>, 0)
    /\ calls' = calls + 1
    /\ UNCHANGED <<iterVars, diffVars, writerVars, fbVars>>

NextStream ==
    \/ StreamNew
    \/ StreamAddCommand
    \/ StreamAddLiteralData
    \/ StreamAddRepeatingData
    \/ StreamFlushCall

SpecStream == InitStream /\ [][NextStream]_vars

\* the units the last call appended, and the buffers it handed to the sink
UnitsOfLastCall == Drop(stream.units, Len(last_call.before.units))

SentByLastCall == Drop(stream.sent, Len(last_call.before.sent))

\* a unit as it lies in the byte stream
Encoded(u) == <<u.header>> \o u.data

\* the byte stream of a sequence of units
RECURSIVE EncodedUnits(_)
EncodedUnits(us) == IF us = <<>> THEN <<>> ELSE Encoded(Head(us)) \o EncodedUnits(Tail(us))

\* C4: every encoded unit and every buffer handed to the sink is at most
\* MAX_BYTES_IN_REQUEST bytes long.
C4_RequestSizeBound ==
    /\ \A i \in 1..Len(stream.units) : Len(Encoded(stream.units[i])) <= MAX_BYTES_IN_REQUEST
    /\ \A i \in 1..Len(stream.sent) : Len(stream.sent[i]) <= MAX_BYTES_IN_REQUEST

\* a call has filled a request to the last byte and the sink has received it
C4_Witness ==
    /\ last_call.op \in {"command", "literal"}
    /\ last_call.before.buffer # <<>>
    /\ \E i \in 1..Len(stream.sent) : Len(stream.sent[i]) = MAX_BYTES_IN_REQUEST

\* the bytes of the stream: what the sink has received, then the pending buffer
StreamBytes(s) == Concat(s.sent) \o s.buffer

BytesOfLastCall == Drop(StreamBytes(stream), Len(StreamBytes(last_call.before)))

\* The receiver's reading of a run of literal units: a header h announces
\* h - 63 payload bytes. A header that is no literal header, or a unit cut
\* short, reads as <<-1>>.
RECURSIVE DecodeLiterals(_)
DecodeLiterals(bytes) ==
    IF bytes = <<>> THEN <<>>
    ELSE LET n == Head(bytes) - 63
         IN  IF n < 1 \/ n > 64 \/ Len(bytes) < n + 1
             THEN <<-1>>
             ELSE SubSeq(bytes, 2, n + 1) \o DecodeLiterals(Drop(bytes, n + 1))

\* C5: the bytes add_literal_data puts on the stream, read back by the header
\* rule (header - 63 = payload length), are the original payload, whatever
\* the pending buffer held before.
C5_LiteralRoundTrip ==
    last_call.op = "literal" => DecodeLiterals(BytesOfLastCall) = last_call.data

\* a payload of more than one 64-byte chunk, added behind pending bytes, that
\* was cut into three or more units with a transmission in between
C5_Witness ==
    /\ last_call.op = "literal"
    /\ Len(last_call.data) > 64
    /\ last_call.before.buffer # <<>>
    /\ Len(UnitsOfLastCall) >= 3
    /\ Len(SentByLastCall) >= 2

CeilDiv(a, b) == (a + b - 1) \div b

\* C8: add_repeating_data(N, value), N >= 1, appends ceil(N/129) repeat units
\* with header = count + 126, counts in 1..129 summing to N, all but the last
\* 129; N = 200 gives headers 255 then 197.
C8_RepeatUnits ==
    (last_call.op = "repeat" /\ last_call.runlength >= 1) =>
        LET us == UnitsOfLastCall
            counts == [i \in 1..Len(us) |-> us[i].header - 126]
        IN  /\ Len(us) = CeilDiv(last_call.runlength, 129)
            /\ \A i \in 1..Len(us) : /\ counts[i] \in 1..129
                                      /\ us[i].data = last_call.data
                                      /\ i < Len(us) => counts[i] = 129
            /\ SumSeq(counts) = last_call.runlength
            /\ last_call.runlength = 200 =>
                   [i \in 1..Len(us) |-> us[i].header] = <<255, 197>>

\* the scenario repeat(200, [0x12, 0x34]) behind pending bytes
C8_Witness ==
    /\ last_call.op = "repeat"
    /\ last_call.runlength = 200
    /\ last_call.data = <<18, 52>>
    /\ last_call.before.buffer # <<>>
    /\ Len(UnitsOfLastCall) = 2

\* C9: flush() with pending bytes hands the whole pending buffer to the sink
\* in one call and leaves it empty; flush() with nothing pending calls nothing
\* and changes nothing; the sink never receives an empty buffer.
C9_Flush ==
    /\ last_call.op = "flush" =>
         IF last_call.before.buffer # <<>>
         THEN /\ stream.sent = Append(last_call.before.sent, last_call.before.buffer)
              /\ stream.buffer = <<>>
              /\ stream.units = last_call.before.units
         ELSE stream = last_call.before
    /\ \A i \in 1..Len(stream.sent) : stream.sent[i] # <<>>

\* a flush that transmitted pending bytes
C9_Witness ==
    /\ last_call.op = "flush"
    /\ last_call.before.buffer # <<>>
    /\ Len(stream.sent) = Len(last_call.before.sent) + 1

\* C18: a command or literal of at most 47 bytes is emitted as one unit; when
\* it does not fit behind the pending bytes, these are transmitted first.
C18_FlushBeforeSplit ==
    (last_call.op \in {"command", "literal"} /\ Len(last_call.data) \in 1..47) =>
        /\ Len(UnitsOfLastCall) = 1
        /\ Len(last_call.data) > 47 - Len(last_call.before.buffer) =>
              /\ SentByLastCall # <<>>
              /\ SentByLastCall[1] = last_call.before.buffer

\* C19: after every operation the pending buffer is shorter than 45 bytes,
\* and every buffer an add_* operation transmitted had reached 45 bytes.
C19_AutoFlush ==
    /\ Len(stream.buffer) < 45
    /\ last_call.op \in {"command", "literal", "repeat"} =>
          \A i \in 1..Len(SentByLastCall) : Len(SentByLastCall[i]) >= 45

\* an add_* call behind pending bytes whose unit brought the buffer to 45
\* bytes or more, transmitted at once
C19_Witness ==
    /\ last_call.op \in {"command", "literal", "repeat"}
    /\ last_call.before.buffer # <<>>
    /\ Len(UnitsOfLastCall) = 1
    /\ Len(SentByLastCall) = 1
    /\ stream.buffer = <<>>

\* the payloads of a sequence of units, one after the other
RECURSIVE UnitData(_)
UnitData(us) == IF us = <<>> THEN <<>> ELSE Head(us).data \o UnitData(Tail(us))

\* C28: a command that add_command emits in more than one unit has a first
\* unit with header = chunk length - 1, every later unit with header =
\* chunk length + 63, no empty chunk, and the chunk payloads in emission
\* order make up the original command bytes.
C28_CommandSplitting ==
    (last_call.op = "command" /\ Len(UnitsOfLastCall) > 1) =>
        /\ UnitsOfLastCall[1].header = Len(UnitsOfLastCall[1].data) - 1
        /\ \A i \in 2..Len(UnitsOfLastCall) :
             UnitsOfLastCall[i].header = Len(UnitsOfLastCall[i].data) + 63
        /\ \A i \in 1..Len(UnitsOfLastCall) : UnitsOfLastCall[i].data # <<>>
        /\ UnitData(UnitsOfLastCall) = last_call.data

\* a command of 100 bytes that arrives behind pending bytes and leaves in
\* three chunks
C28_Witness ==
    /\ last_call.op = "command"
    /\ Len(last_call.data) = 100
    /\ last_call.before.buffer # <<>>
    /\ Len(UnitsOfLastCall) = 3

CommandHeaders == 0..(MAX_BYTES_IN_REQUEST - 2)

LiteralHeaders == 64..(MAX_BYTES_IN_REQUEST + 62)

RepeatHeaders == 127..255

\* C29: the header byte alone tells the kind and the payload length of a
\* unit: the first unit of a command has a header in 0..46 and header + 1
\* bytes, every literal unit a header in 64..110 and header - 63 bytes,
\* every repeat unit a header in 127..255 and one colour; the three ranges
\* do not overlap.
C29_HeaderUnambiguity ==
    /\ CommandHeaders \cap LiteralHeaders = {}
    /\ LiteralHeaders \cap RepeatHeaders = {}
    /\ CommandHeaders \cap RepeatHeaders = {}
    /\ \A i \in 1..Len(UnitsOfLastCall) :
         LET u == UnitsOfLastCall[i]
         IN  IF last_call.op = "repeat"
             THEN u.header \in RepeatHeaders /\ u.data = last_call.data
             ELSE IF last_call.op = "command" /\ i = 1
             THEN u.header \in CommandHeaders /\ Len(u.data) = u.header + 1
             ELSE u.header \in LiteralHeaders /\ Len(u.data) = u.header - 63
    /\ \A i \in 1..Len(stream.units) :
         stream.units[i].header \in CommandHeaders \cup LiteralHeaders \cup RepeatHeaders

\* a literal unit with the highest literal header, after a command unit
\* with the highest command header
C29_Witness ==
    /\ \E i \in 1..Len(stream.units) :
         stream.units[i].header = 110 /\ Len(stream.units[i].data) = 47
    /\ \E i \in 1..Len(stream.units) : stream.units[i].header = 46
    /\ last_call.op = "literal"

\* the stream positions at which a buffer handed to the sink ends
SentBoundaries(s) == {Len(Concat(Take(s.sent, k))) : k \in 1..Len(s.sent)}

\* the stream positions at which an encoded unit ends
UnitBoundaries(s) == {Len(EncodedUnits(Take(s.units, k))) : k \in 1..Len(s.units)}

\* C30: the buffers handed to the sink, in call order, followed by the
\* pending buffer are the encoded units in the order the operations made
\* them, and every buffer handed to the sink ends where a unit ends.
C30_StreamOrder ==
    /\ Concat(stream.sent) \o stream.buffer = EncodedUnits(stream.units)
    /\ SentBoundaries(stream) \subseteq UnitBoundaries(stream)

\* two buffers sent by the threshold test, with a unit still pending
C30_Witness ==
    /\ Len(stream.sent) >= 2
    /\ stream.buffer # <<>>
    /\ last_call.op = "literal"
    /\ Len(last_call.data) = 130
    /\ last_call.before.sent = <<>>
    /\ Len(stream.units) >= 4

\* the space each _extend_buffer call of the last operation found left
StepsOfLastCall == Drop(stream.steps, Len(last_call.before.steps))

\* the _extend_buffer calls an operation makes itself: one per 64 bytes of
\* a literal, one per section of a repeat, one for a command that is not
\* empty
TopLevelCalls ==
    IF last_call.op = "literal" THEN CeilDiv(Len(last_call.data), 64)
    ELSE IF last_call.op = "repeat" THEN CeilDiv(last_call.runlength, 129)
    ELSE IF last_call.op = "command" /\ last_call.data # <<>> THEN 1
    ELSE 0

\* C32: every _extend_buffer call finds at least 3 bytes left in the pending
\* buffer, and so does the next operation; the calls of one operation are
\* finitely many: each call that splits has two calls below it and each
\* call that does not split appends one unit with a payload, so there are
\* twice as many calls as units less the calls the operation makes itself,
\* and a repeat never splits nor flushes to try again.
C32_PackingTerminates ==
    /\ RemainingSpace(stream) >= 3
    /\ \A i \in 1..Len(stream.steps) : stream.steps[i] >= 3
    /\ \A i \in 1..Len(UnitsOfLastCall) : UnitsOfLastCall[i].data # <<>>
    /\ Len(StepsOfLastCall) = 2 * Len(UnitsOfLastCall) - TopLevelCalls
    /\ (last_call.op \in {"command", "literal"})
         => Len(UnitsOfLastCall) <= Len(last_call.data)
    /\ (last_call.op = "repeat") => Len(UnitsOfLastCall) = TopLevelCalls

\* a literal of 130 bytes that finds only 3 bytes left and splits more than
\* once
C32_Witness ==
    /\ last_call.op = "literal"
    /\ Len(last_call.data) = 130
    /\ StepsOfLastCall # <<>>
    /\ StepsOfLastCall[1] = 3
    /\ Len(StepsOfLastCall) >= 9

----------------------------------------------------------------------------
(***************************************************************************)
(* SpecDiff: get_pixel_changes on rows drawn from bounded sets.            *)
(***************************************************************************)
MaxDiffBytes == 2

\* 0x00, 0x07, 0xC0, 0x89
DiffByteVals == {0, 7, 192, 137}

DiffRows == UNION {[1..k -> DiffByteVals] : k \in 1..MaxDiffBytes}

InitDiff ==
    /\ \E new_row \in DiffRows :
         \E old_row \in DiffRows \cup {NoRow} :
           \E row_width \in 0..(8 * Len(new_row)) :
               diff_args = [old_row |-> old_row, new_row |-> new_row, row_width |-> row_width]
    /\ diff_result = <<>>
    /\ diff_done = FALSE
    /\ IterIdle /\ StreamIdle /\ WriterIdle /\ FbIdle

DiffCall ==
    /\ ~diff_done
    /\ diff_result' = GetPixelChanges(diff_args.old_row, diff_args.new_row, diff_args.row_width)
    /\ diff_done' = TRUE
    /\ UNCHANGED <<diff_args, iterVars, streamVars, writerVars, fbVars>>

NextDiff == DiffCall

SpecDiff == InitDiff /\ [][NextDiff]_vars

\* pixel p lies in one of the ranges
InRanges(ranges, p) == \E i \in 1..Len(ranges) : ranges[i][1] <= p /\ p < ranges[i][2]

\* old_row with new_row's pixels copied over it on every range, pixel by pixel
Patched(old_row, new_row, ranges, width) ==
    [p \in 0..(width - 1) |-> IF InRanges(ranges, p) THEN BitAt(new_row, p)
                              ELSE BitAt(old_row, p)]

\* C3: copying new_row's pixels over old_row on every range returned gives
\* new_row on all pixels of [0, W).
C3_DiffReconstructs ==
    (diff_done /\ diff_args.old_row # NoRow
       /\ Len(diff_args.old_row) = Len(diff_args.new_row)) =>
        Patched(diff_args.old_row, diff_args.new_row, diff_result, diff_args.row_width)
          = [p \in 0..(diff_args.row_width - 1) |-> BitAt(diff_args.new_row, p)]

\* a diff of two different 16-pixel rows that returned two or more ranges
C3_Witness ==
    /\ diff_done
    /\ diff_args.old_row # NoRow
    /\ diff_args.old_row # diff_args.new_row
    /\ diff_args.row_width = 16
    /\ Len(diff_result) >= 2

\* the pixels at which the two rows differ
DifferingPixels(old_row, new_row) ==
    {p \in 0..(8 * Len(new_row) - 1) : BitAt(old_row, p) # BitAt(new_row, p)}

\* C12: with `previous` present, the first range returned begins at the
\* first differing pixel (no leading unchanged run is part of it); old row
\* 0x00 0x00 against new row 0x07 0xC0 at width 16 gives exactly (5, 10).
C12_FirstRangeAtFirstDifference ==
    (diff_done /\ diff_args.old_row # NoRow
       /\ Len(diff_args.old_row) = Len(diff_args.new_row)) =>
        /\ diff_result # <<>> =>
              LET d == DifferingPixels(diff_args.old_row, diff_args.new_row)
              IN  /\ d # {}
                  /\ \A p \in d : diff_result[1][1] <= p
                  /\ diff_result[1][1] \in d
        /\ (diff_args.old_row = <<0, 0>> /\ diff_args.new_row = <<7, 192>>
               /\ diff_args.row_width = 16)
              => diff_result = << <<5, 10>> >>

\* the scenario: 16 pixels, all background before, pixels [5, 10) set now
C12_Witness ==
    /\ diff_done
    /\ diff_args = [old_row |-> <<0, 0>>, new_row |-> <<7, 192>>, row_width |-> 16]
    /\ Len(diff_result) = 1

\* pixel p is the same in both rows
Unchanged(p) == BitAt(diff_args.old_row, p) = BitAt(diff_args.new_row, p)

\* C23: with `previous` present, the ranges are ascending, disjoint and
\* inside [0, W); each begins and ends on a differing pixel; inside a range
\* no more than MAX_NR_CONSECUTIVE_UNCHANGED_PIXELS unchanged pixels follow
\* one another; and two consecutive ranges lie more than that many (at
\* least 4) unchanged pixels apart.
C23_GapCoalescing ==
    (diff_done /\ diff_args.old_row # NoRow
       /\ Len(diff_args.old_row) = Len(diff_args.new_row)) =>
        /\ \A i \in 1..Len(diff_result) :
             LET b == diff_result[i][1]
                 e == diff_result[i][2]
             IN  /\ 0 <= b /\ b < e /\ e <= diff_args.row_width
                 /\ ~Unchanged(b) /\ ~Unchanged(e - 1)
                 /\ \A p \in b..(e - 1) :
                      \E q \in p..(p + MAX_NR_CONSECUTIVE_UNCHANGED_PIXELS) :
                          q < e /\ ~Unchanged(q)
        /\ \A p \in 0..(diff_args.row_width - 1) :
             ~Unchanged(p) => InRanges(diff_result, p)
        /\ \A i \in 1..(Len(diff_result) - 1) :
             /\ diff_result[i + 1][1] - diff_result[i][2] > MAX_NR_CONSECUTIVE_UNCHANGED_PIXELS
             /\ \A p \in diff_result[i][2]..(diff_result[i + 1][1] - 1) : Unchanged(p)

\* An error outcome of get_pixel_changes or of write. Neither function has
\* a statement that raises: zip() cuts the longer row and PixelRunIterator
\* clamps `end`, so no call of the model ends in it.
Raised == <<None>>

\* C15: get_pixel_changes on rows of different byte lengths, and write with
\* a range not inside the row's pixels, end in an error.
C15_FailFast ==
    /\ (diff_done /\ diff_args.old_row # NoRow
          /\ Len(diff_args.old_row) # Len(diff_args.new_row))
         => diff_result = Raised
    /\ (last_write.op = "write" /\ last_write.end > 8 * Len(last_write.data))
         => writer.log = Raised

----------------------------------------------------------------------------
(***************************************************************************)
(* SpecWriter: one BitmapWriterHelper under at most MaxWrites write calls  *)
(* and a flush, on rows, data and ranges drawn from small sets.            *)
(***************************************************************************)
MaxWrites == 2

MaxWriterRow == 2

\* 0xA5 (runs of one and two pixels), 0x0F (two runs of four)
WriterRows == {<<165>>, <<15>>}

\* the last one reaches beyond the eight pixels of the row
WriterRanges == {<<0, 8>>, <<0, 4>>, <<2, 6>>, <<4, 8>>, <<4, 12>>}

InitWriter == IterIdle /\ StreamIdle /\ DiffIdle /\ WriterIdle /\ FbIdle

WriterNewCall ==
    /\ writes > 0
    /\ writer' = NoWriter
    /\ writes' = 0
    /\ last_write' = NoWrite
    /\ UNCHANGED <<iterVars, streamVars, diffVars, fbVars>>

WriterWriteCall ==
    /\ writes < MaxWrites
    /\ last_write.op # "flush"
    /\ \E row \in 0..MaxWriterRow, data \in WriterRows, range \in WriterRanges :
         /\ writer' = WriterWrite(writer, row, data, range[1], range[2])
         /\ last_write' = [op |-> "write", row |-> row, data |-> data,
                           begin |-> range[1], end |-> range[2], before |-> writer]
    /\ writes' = writes + 1
    /\ UNCHANGED <<iterVars, streamVars, diffVars, fbVars>>

WriterFlushCall ==
    /\ last_write.op # "flush"
    /\ writer' = WriterFlush(writer)
    /\ last_write' = [op |-> "flush", row |-> 0, data |-> <<>>,
                      begin |-> 0, end |-> 0, before |-> writer]
    /\ UNCHANGED <<writes, iterVars, streamVars, diffVars, fbVars>>

NextWriter == WriterNewCall \/ WriterWriteCall \/ WriterFlushCall

SpecWriter == InitWriter /\ [][NextWriter]_vars

\* the calls the last write (or flush) made on the stream
LogOfLastWrite == Drop(writer.log, Len(last_write.before.log))

\* the column window differs from the previous write's, or there was none
ColumnWindowChanged ==
    \/ last_write.begin # last_write.before.last_begin
    \/ last_write.end # last_write.before.last_end

\* C10: a write whose (begin, end) differs from the previous write's, or the
\* first write, emits the CASET command of its range.
C10_CasetOnWindowChange ==
    (last_write.op = "write" /\ ColumnWindowChanged) =>
        \E i \in 1..Len(LogOfLastWrite) :
            /\ LogOfLastWrite[i].op = "command"
            /\ LogOfLastWrite[i].data = CasetCommand(writer, last_write.begin, last_write.end)

\* two consecutive writes to one row with different column ranges, each
\* having sent CASET
C10_Witness ==
    /\ last_write.op = "write"
    /\ last_write.before.last_row = last_write.row
    /\ last_write.row > 0
    /\ ColumnWindowChanged
    /\ Cardinality({i \in 1..Len(writer.log) :
                      /\ writer.log[i].op = "command"
                      /\ Head(writer.log[i].data) = ST7796S_CASET}) = 2

\* the commands of the last write call, by command byte
CommandsOfLastWrite ==
    LET cmds == SelectSeq(LogOfLastWrite, LAMBDA e : e.op = "command")
    IN  [i \in 1..Len(cmds) |-> Head(cmds[i].data)]

\* the row is not the one after the previous write's row (or there was none)
RowNotContiguous ==
    \/ last_write.before.last_row = None
    \/ last_write.row # last_write.before.last_row + 1

\* C11: a write whose column window differs from the previous write's, or
\* whose row is not the previous write's row + 1, emits the RASET command of
\* its row.
C11_RasetOnWindowOrRowChange ==
    (last_write.op = "write" /\ (ColumnWindowChanged \/ RowNotContiguous)) =>
        \E i \in 1..Len(LogOfLastWrite) :
            /\ LogOfLastWrite[i].op = "command"
            /\ LogOfLastWrite[i].data = RasetCommand(writer, last_write.row)

\* C20: a write that emits a window command first hands the literal bytes
\* buffered before it to the packer, then emits CASET and/or RASET (CASET
\* first), then exactly one RAMWR, and only then pixel data; a write emits
\* RAMWR if and only if it emits a window command.
C20_AddressingOrder ==
    last_write.op = "write" =>
        LET log == LogOfLastWrite
            cmds == CommandsOfLastWrite
            buffered == last_write.before.literal_buffer
            k == IF buffered # <<>> THEN 1 ELSE 0
        IN  /\ cmds \in {<<>>, <<ST7796S_CASET, ST7796S_RASET, ST7796S_RAMWR>>,
                          <<ST7796S_CASET, ST7796S_RAMWR>>,
                          <<ST7796S_RASET, ST7796S_RAMWR>>}
            /\ cmds # <<>> =>
                  /\ Len(log) >= k + Len(cmds)
                  /\ k = 1 => log[1] = LogEntry("literal", buffered, 0)
                  /\ \A i \in 1..Len(cmds) : log[k + i].op = "command"

\* a write that found literal bytes buffered and emitted CASET, RASET and
\* RAMWR, followed by pixel data
C20_Witness ==
    /\ last_write.op = "write"
    /\ last_write.before.literal_buffer # <<>>
    /\ CommandsOfLastWrite = <<ST7796S_CASET, ST7796S_RASET, ST7796S_RAMWR>>
    /\ Len(LogOfLastWrite) > 4

\* C21: a write with the previous write's column range, on the row after the
\* previous write's row, emits no command at all, previous row 0 included.
C21_RasterContinuation ==
    (last_write.op = "write" /\ ~ColumnWindowChanged
       /\ last_write.before.last_row # None
       /\ last_write.row = last_write.before.last_row + 1)
        => CommandsOfLastWrite = <<>>

\* colour bytes as pixels: one colour per two bytes
Colors(bytes) == [i \in 1..(Len(bytes) \div 2) |-> 256 * bytes[2 * i - 1] + bytes[2 * i]]

\* the pixels that the literal and repeat entries of a log stand for, in order
RECURSIVE LogColors(_)
LogColors(log) ==
    IF log = <<>> THEN <<>>
    ELSE LET e == Head(log)
             cs == IF e.op = "literal" THEN Colors(e.data)
                   ELSE IF e.op = "repeat"
                   THEN [i \in 1..e.runlength |-> Colors(e.data)[1]]
                   ELSE <<>>
         IN  cs \o LogColors(Tail(log))

\* the colours of bits begin..end-1 of the row
ExpectedColors(w, data, begin, end) ==
    [i \in 1..(end - begin) |-> IF BitAt(data, begin + i - 1) THEN w.fgcolor ELSE w.bgcolor]

\* C22: for 0 <= begin < end <= 8*len(data), the colour entries of a write
\* (what it handed to the packer and what it left in the literal buffer),
\* read in order behind the pixels buffered before it, are the end - begin
\* colours of bits begin..end-1 of data; runs of one pixel go as literal
\* bytes and longer runs as repeats.
C22_PixelStream ==
    (last_write.op = "write" /\ last_write.begin < last_write.end
       /\ last_write.end <= 8 * Len(last_write.data)) =>
        /\ LogColors(LogOfLastWrite) \o Colors(writer.literal_buffer)
             = Colors(last_write.before.literal_buffer)
                 \o ExpectedColors(writer, last_write.data, last_write.begin, last_write.end)
        /\ \A i \in 1..Len(LogOfLastWrite) :
             LogOfLastWrite[i].op = "repeat" => LogOfLastWrite[i].runlength >= 2

\* a write of part of the row 0xA5 behind buffered literal pixels, with a
\* repeat and literal pixels of its own
C22_Witness ==
    /\ last_write.op = "write"
    /\ last_write.data = <<165>>
    /\ last_write.begin = 2 /\ last_write.end = 6
    /\ last_write.before.literal_buffer # <<>>
    /\ \E i \in 1..Len(LogOfLastWrite) : LogOfLastWrite[i].op = "repeat"
    /\ writer.literal_buffer # <<>>

\* the bytes of the units, as they lie in the stream

\* C24: flush() after at least one write (to row 0 too) hands the literal
\* buffer to the packer and flushes the packer: nothing stays buffered and
\* every byte of every unit has reached the sink; flush() with no write made
\* calls nothing.
C24_WriterFlush ==
    last_write.op = "flush" =>
        IF last_write.before.last_row # None
        THEN /\ writer.literal_buffer = <<>>
             /\ writer.stream.buffer = <<>>
             /\ Concat(writer.stream.sent) = EncodedUnits(writer.stream.units)
             /\ LogColors(writer.log)
                  = LogColors(last_write.before.log) \o Colors(last_write.before.literal_buffer)
        ELSE writer = last_write.before

\* a flush after a single write to row 0 that left literal pixels buffered
C24_Witness ==
    /\ last_write.op = "flush"
    /\ last_write.before.last_row = 0
    /\ last_write.before.literal_buffer # <<>>
    /\ writer.stream.sent # <<>>

----------------------------------------------------------------------------
(***************************************************************************)
(* Spec: one Framebuffer (the menu grid) under flush, full_flush, clear    *)
(* and the four draw operations, on arguments drawn from small sets.       *)
(* Every flush is played to a panel that holds `previous` when the flush   *)
(* begins; last_flush records the write calls made, the requests the sink  *)
(* got, the panel afterwards and the rows of `current` at the return.      *)
(***************************************************************************)
MaxOps == 4

\* font8x14.VGA_FONT[ord('A')]: the fourteen rows of one character
GlyphA == <<0, 0, 16, 56, 108, 198, 198, 254, 198, 198, 198, 198, 0, 0>>

TextArgs == {<<0, 0, <<GlyphA>> >>, <<1, 0, <<GlyphA>> >>}

GraphicsArgs == {<<0, 0, <<0, 128, 129>> >>, <<0, 0, <<24>> >>, <<0, 1, <<24>> >>}

BitmapArgs == {<<7, 1, << <<128>> >> >>, <<0, 2, << <<128>>, <<128>> >> >>, <<0, 0, <<>> >>}

\* other grids given to write_framebuffer: one of 1x1 at (0, 1), one of 2x1 at (7, 0)
SourceGrids == {[origin_x |-> 0, origin_y |-> 1, end_x |-> 1, framebuffer |-> << <<129>> >>],
                [origin_x |-> 7, origin_y |-> 0, end_x |-> 9, framebuffer |-> << <<1, 2>> >>]}

\* the rows of `previous` and of `current`, by value
OldRows(fb) == [i \in 1..SizeY |-> OldRow(fb, i - 1)]

CurRows(fb) == [i \in 1..SizeY |-> CurRow(fb, i - 1)]

HasPrevious(fb) == \A i \in 1..SizeY : fb.old_framebuffer[i] # None

\* what a flush that returned r did, seen from the panel that held `previous`
FlushRecord(fb, r) ==
    LET sent == r.writer.stream.sent
        d == DeviceRequests(NewDevice([i \in 1..SizeY |-> RowColors(OldRow(fb, i - 1))]), sent)
    IN  [writes |-> r.writes, sent |-> sent, device |-> d.pix, stray |-> d.stray,
         had_previous |-> HasPrevious(fb), snapshot |-> CurRows(r.fb),
         pending |-> r.writer.stream.buffer \o r.writer.literal_buffer]

Init == IterIdle /\ StreamIdle /\ DiffIdle /\ WriterIdle /\ FbIdle

Operation(op, raised) ==
    /\ ops < MaxOps
    /\ ops' = ops + 1
    /\ last_op' = op
    /\ prev_op' = last_op
    /\ op_raised' = raised
    /\ UNCHANGED <<iterVars, streamVars, diffVars, writerVars>>

FlushCall ==
    LET r == Flush(menu_framebuffer)
    IN  /\ menu_framebuffer' = r.fb
        /\ last_flush' = FlushRecord(menu_framebuffer, r)
        /\ Operation("flush", FALSE)

FullFlushCall ==
    LET r == FullFlush(menu_framebuffer)
    IN  /\ menu_framebuffer' = r.fb
        /\ last_flush' = FlushRecord(menu_framebuffer, r)
        /\ Operation("full_flush", FALSE)

ClearCall ==
    /\ menu_framebuffer' = Clear(menu_framebuffer)
    /\ Operation("clear", FALSE)
    /\ UNCHANGED last_flush

WriteTextCall ==
    \E a \in TextArgs :
        LET d == WriteText(menu_framebuffer, a[1], a[2], a[3])
        IN  /\ menu_framebuffer' = d.fb
            /\ Operation("write_text", d.raised)
            /\ UNCHANGED last_flush

WriteGraphicsCall ==
    \E a \in GraphicsArgs :
        LET d == WriteGraphics(menu_framebuffer, a[1], a[2], a[3])
        IN  /\ menu_framebuffer' = d.fb
            /\ Operation("write_graphics", d.raised)
            /\ UNCHANGED last_flush

WriteBitmapCall ==
    \E a \in BitmapArgs :
        LET d == WriteBitmap(menu_framebuffer, a[1], a[2], a[3])
        IN  /\ menu_framebuffer' = d.fb
            /\ Operation("write_bitmap", d.raised)
            /\ UNCHANGED last_flush

WriteFramebufferCall ==
    \E src \in SourceGrids :
        LET d == WriteFramebuffer(menu_framebuffer, src)
        IN  /\ menu_framebuffer' = d.fb
            /\ Operation("write_framebuffer", d.raised)
            /\ UNCHANGED last_flush

Next ==
    \/ FlushCall
    \/ FullFlushCall
    \/ ClearCall
    \/ WriteTextCall
    \/ WriteGraphicsCall
    \/ WriteBitmapCall
    \/ WriteFramebufferCall

Spec == Init /\ [][Next]_vars

\* C1: after a flush() that began with the panel holding `previous`, the
\* panel's pixels inside the grid's region are those of `current`, and no
\* pixel was written outside the region.
C1_DeviceHoldsCurrent ==
    (last_op = "flush" /\ last_flush.had_previous) =>
        /\ last_flush.device = [i \in 1..SizeY |-> RowColors(last_flush.snapshot[i])]
        /\ ~last_flush.stray

\* C2: once flush() or full_flush() has returned, every row of `previous`
\* keeps the values it had at that return, whatever is drawn afterwards.
C2_PreviousKeepsFlushedValues ==
    (last_flush # NoFlush /\ last_op \in {"write_text", "write_graphics", "write_bitmap",
                                          "write_framebuffer"})
        => OldRows(menu_framebuffer) = last_flush.snapshot

\* C7: a flush() directly after a flush() makes no write call (no
\* ChangeRange on any row) and no call of the transmit sink.
C7_FlushIdempotent ==
    (last_op = "flush" /\ prev_op = "flush") =>
        /\ last_flush.writes = <<>>
        /\ last_flush.sent = <<>>

\* a second flush in a row of a grid that has set pixels
C7_Witness ==
    /\ last_op = "flush"
    /\ prev_op = "flush"
    /\ last_flush.had_previous
    /\ \E i \in 1..SizeY : \E j \in 1..Len(last_flush.snapshot[i]) : last_flush.snapshot[i][j] # 0

\* row `row` of rows, pixel p is foreground
Foreground(rows, row, p) == BitAt(rows[row + 1], p)

\* the write calls of a flush cover, in `rows`, every foreground pixel, begin
\* and end every range on a foreground pixel, and take in no background run
\* longer than MAX_NR_CONSECUTIVE_UNCHANGED_PIXELS
CoversForeground(ws, rows) ==
    /\ \A row \in 0..(SizeY - 1) : \A p \in 0..(SizeX - 1) :
         Foreground(rows, row, p) =>
             \E i \in 1..Len(ws) : ws[i][1] = row /\ ws[i][2] <= p /\ p < ws[i][3]
    /\ \A i \in 1..Len(ws) :
         /\ 0 <= ws[i][2] /\ ws[i][2] < ws[i][3] /\ ws[i][3] <= SizeX
         /\ Foreground(rows, ws[i][1], ws[i][2])
         /\ Foreground(rows, ws[i][1], ws[i][3] - 1)
         /\ \A p \in ws[i][2]..(ws[i][3] - 1) :
              \E q \in p..(p + MAX_NR_CONSECUTIVE_UNCHANGED_PIXELS) :
                  q < ws[i][3] /\ Foreground(rows, ws[i][1], q)

\* C13: clear() leaves every byte of `current` zero and every row of
\* `previous` as it was, and a flush() directly after clear() writes ranges
\* that cover exactly the foreground pixels of `previous` and the gaps of at
\* most three pixels between them.
C13_ClearKeepsPrevious ==
    [][/\ last_op' = "clear" =>
            /\ \A i \in 1..SizeY : \A j \in 1..Len(CurRows(menu_framebuffer')[i]) :
                   CurRows(menu_framebuffer')[i][j] = 0
            /\ Len(menu_framebuffer'.framebuffer) = SizeY
            /\ OldRows(menu_framebuffer') = OldRows(menu_framebuffer)
       /\ (last_op = "clear" /\ last_op' = "flush" /\ HasPrevious(menu_framebuffer)) =>
            CoversForeground(last_flush'.writes, OldRows(menu_framebuffer))]_vars

\* a flush directly after a clear of a grid whose `previous` had foreground
\* pixels, writing at least one range
C13_Witness ==
    /\ last_op = "flush"
    /\ prev_op = "clear"
    /\ last_flush.had_previous
    /\ last_flush.writes # <<>>
    /\ \A i \in 1..SizeY : \A j \in 1..Len(last_flush.snapshot[i]) : last_flush.snapshot[i][j] = 0

DrawOps == {"write_text", "write_graphics", "write_bitmap", "write_framebuffer"}

\* C14: a draw never raises and leaves the grid with its SizeY rows of the
\* length they were made with.
C14_DrawsAreClipped ==
    last_op \in DrawOps =>
        /\ ~op_raised
        /\ Len(menu_framebuffer.framebuffer) = SizeY
        /\ \A i \in 1..SizeY : Len(CurRows(menu_framebuffer)[i]) = Len(NewRow)

\* C16: `current` has SizeY rows, each of ceil(SizeX / 8) bytes.
C16_RowGeometry ==
    /\ Len(menu_framebuffer.framebuffer) = SizeY
    /\ \A i \in 1..SizeY : Len(CurRows(menu_framebuffer)[i]) = CeilDiv(SizeX, 8)

\* C17: full_flush() makes one write call per row, rows 0..SizeY-1 in order,
\* each with the range [0, SizeX), whatever `previous` holds; the encoder is
\* then flushed (nothing stays buffered) and `previous` equals `current`.
C17_FullFlushWritesEveryRow ==
    last_op = "full_flush" =>
        /\ last_flush.writes = [i \in 1..SizeY |-> <<i - 1, 0, SizeX>>]
        /\ last_flush.sent # <<>>
        /\ last_flush.pending = <<>>
        /\ OldRows(menu_framebuffer) = CurRows(menu_framebuffer)

\* a full_flush of a grid that has set pixels and whose `previous` already
\* equalled `current`
C17_Witness ==
    /\ last_op = "full_flush"
    /\ prev_op \in {"flush", "full_flush"}
    /\ last_flush.had_previous
    /\ Len(last_flush.writes) = SizeY
    /\ \E i \in 1..SizeY : \E j \in 1..Len(last_flush.snapshot[i]) : last_flush.snapshot[i][j] # 0

\* C25: flush() writes in strictly ascending (row, begin) order, rows within
\* 0..H-1, the ranges of one row not overlapping; after the writer's flush
\* nothing is left pending, and all H rows of `previous` equal `current`.
C25_FlushOrder ==
    last_op = "flush" =>
        /\ \A i \in 1..Len(last_flush.writes) :
             /\ last_flush.writes[i][1] \in 0..(SizeY - 1)
             /\ last_flush.writes[i][2] < last_flush.writes[i][3]
        /\ \A i \in 1..(Len(last_flush.writes) - 1) :
             LET a == last_flush.writes[i]
                 b == last_flush.writes[i + 1]
             IN  \/ a[1] < b[1]
                 \/ a[1] = b[1] /\ a[2] < b[2] /\ a[3] <= b[2]
        /\ last_flush.pending = <<>>
        /\ (last_flush.writes # <<>>) => (last_flush.sent # <<>>)
        /\ HasPrevious(menu_framebuffer)
        /\ OldRows(menu_framebuffer) = CurRows(menu_framebuffer)
        /\ OldRows(menu_framebuffer) = last_flush.snapshot

\* a flush, with `previous` present, that wrote a range of one row and then
\* two ranges of a later row
C25_Witness ==
    /\ last_op = "flush"
    /\ last_flush.had_previous
    /\ \E i \in 1..(Len(last_flush.writes) - 2) :
         /\ last_flush.writes[i][1] < last_flush.writes[i + 1][1]
         /\ last_flush.writes[i + 1][1] = last_flush.writes[i + 2][1]

\* the bytes a new writer sends ahead of the pixels of its first write
\* <<row, begin, end>>: CASET, RASET and RAMWR as command units
FirstAddressing(w) ==
    <<4, ST7796S_CASET, Hi(w[2] + OriginX), Lo(w[2] + OriginX),
         Hi(w[3] + OriginX - 1), Lo(w[3] + OriginX - 1),
      4, ST7796S_RASET, Hi(w[1] + OriginY), Lo(w[1] + OriginY),
         Hi(MAX_ROW - 1), Lo(MAX_ROW - 1),
      0, ST7796S_RAMWR>>

\* C31: every flush() and full_flush() that writes starts its byte stream
\* with CASET, RASET and RAMWR for its first write, whatever its row and
\* range, and the first pixel unit (header 64 or more) follows them; a
\* flush that writes nothing sends nothing.
C31_FreshAddressing ==
    (last_op \in {"flush", "full_flush"}) =>
        IF last_flush.writes = <<>>
        THEN last_flush.sent = <<>>
        ELSE LET bytes == Concat(last_flush.sent)
                 addressing == FirstAddressing(last_flush.writes[1])
             IN  /\ Len(bytes) > Len(addressing)
                 /\ Take(bytes, Len(addressing)) = addressing
                 /\ bytes[Len(addressing) + 1] >= 64

\* a flush, after an earlier one, whose first write is not on row 0 and
\* does not begin at column 0
C31_Witness ==
    /\ last_op = "flush"
    /\ last_flush.had_previous
    /\ last_flush.writes # <<>>
    /\ last_flush.writes[1][1] > 0
    /\ last_flush.writes[1][2] > 0

====
